---- MODULE Spec2Model ----
(***************************************************************************)
(* A model of umodbus/_functions/__init__.py: the Modbus PDU layer.        *)
(*                                                                         *)
(* Bytes are integers 0..255, byte strings are sequences of bytes, a       *)
(* Python list is a sequence.  An attribute that may be None is a sequence *)
(* of length 0 (None) or 1 (the value).  A call either returns or raises;  *)
(* `result.raised` is the name of the exception class, "" for a return.    *)
(***************************************************************************)
EXTENDS Integers, Sequences, FiniteSets

VARIABLES starting_address, quantity, register_quantity, call, result

vars == <<starting_address, quantity, register_quantity, call, result>>

-----------------------------------------------------------------------------
(* Bounds of the model. *)

\* longest coil-status field (in bytes) of the response PDUs that are decoded
MaxDataBytes == 2
\* longest register field (in bytes) of the response PDUs that are decoded
MaxRegisterBytes == 4
\* the quantities 0..MaxQuantityArg are passed to the coil decoder
MaxQuantityArg == 17

-----------------------------------------------------------------------------
(* Function codes, module level. *)

READ_COILS == 1
READ_DISCRETE_INPUTS == 2
READ_HOLDING_REGISTERS == 3
READ_INPUT_REGISTERS == 4

\* class attribute quantity's upper limit in ReadCoils.quantity.setter
MAX_COIL_QUANTITY == 2000

None == <<>>
Some(v) == <<v>>

Raise(exc) ==
    [raised |-> exc, instance |-> "", byte_count |-> None, quantity |-> None,
     data |-> <<>>, pdu |-> <<>>]

ReturnInstance(cls, bc, q, d) ==
    [raised |-> "", instance |-> cls, byte_count |-> bc, quantity |-> q,
     data |-> d, pdu |-> <<>>]

ReturnBytes(b) ==
    [raised |-> "", instance |-> "bytes", byte_count |-> None,
     quantity |-> None, data |-> <<>>, pdu |-> b]

ReturnNone ==
    [raised |-> "", instance |-> "None", byte_count |-> None,
     quantity |-> None, data |-> <<>>, pdu |-> <<>>]

-----------------------------------------------------------------------------
(* Python built-ins the module relies on. *)

RECURSIVE BinDigits(_)
\* format(value, 'b'): the binary digits of value >= 0, most significant
\* first, "0" for 0
BinDigits(value) ==
    IF value < 2 THEN <<value>>
    ELSE Append(BinDigits(value \div 2), value % 2)

Zeros(n) == [k \in 1..n |-> 0]

\* '{0:0<padding>b}'.format(value): zero-filled on the left to a minimum
\* width of `padding`; a longer number is never cut
FormatBin(value, padding) ==
    LET digits == BinDigits(value)
    IN  IF Len(digits) >= padding THEN digits
        ELSE Zeros(padding - Len(digits)) \o digits

\* list[::-1]
Reverse(s) == [k \in 1..Len(s) |-> s[Len(s) + 1 - k]]

\* buf[lo:hi] for 0 <= lo <= hi
Slice(buf, lo, hi) ==
    LET top == IF hi < Len(buf) THEN hi ELSE Len(buf)
    IN  IF lo >= top THEN <<>> ELSE [k \in 1..(top - lo) |-> buf[lo + k]]

\* struct.unpack with a format of n 'B' fields succeeds on exactly n bytes
UnpackBytesOk(n, buf) == Len(buf) = n

\* struct.unpack('>' + 'H' * n, buf): n big-endian unsigned 16-bit values
UnpackWordsOk(n, buf) == Len(buf) = 2 * n

UnpackWords(n, buf) == [k \in 1..n |-> buf[2 * k - 1] * 256 + buf[2 * k]]

\* struct.pack('>H', v), for 0 <= v <= 65535
PackWord(v) == <<v \div 256, v % 256>>

-----------------------------------------------------------------------------
(* umodbus.exceptions.error_code_to_exception_map: exception code ->       *)
(* exception class.  The module is imported, its table is the standard     *)
(* one: codes 1 to 8, 10 and 11.                                           *)

error_code_to_exception_map ==
    [c \in (1..8) \cup {10, 11} |->
        CASE c = 1 -> "IllegalFunctionError"
          [] c = 2 -> "IllegalDataAddressError"
          [] c = 3 -> "IllegalDataValueError"
          [] c = 4 -> "ServerDeviceFailureError"
          [] c = 5 -> "AcknowledgeError"
          [] c = 6 -> "ServerDeviceBusyError"
          [] c = 7 -> "NegativeAcknowledgeError"
          [] c = 8 -> "MemoryParityError"
          [] c = 10 -> "GatewayPathUnavailableError"
          [] c = 11 -> "GatewayTargetDeviceFailedToRespondError"]

-----------------------------------------------------------------------------
(* class ReadCoils *)

\* the guard of ReadCoils.quantity's setter: 1 <= value <= 2000
QuantityLowerBoundOffByOne(value) == 0 <= value /\ value <= MAX_COIL_QUANTITY
QuantityInRange(value) == 1 <= value /\ value <= MAX_COIL_QUANTITY

\* the width the loop of create_from_response_pdu formats byte i with
PaddingAlwaysEight(q, i) == 8
Padding(q, i) == IF (q - (8 * i)) \div 8 > 0 THEN 8 ELSE q % 8

\* one round of the loop: the bits appended for byte number i
Bits(value, q, i) == Reverse(FormatBin(value, Padding(q, i)))

RECURSIVE CoilData(_, _, _)
\* the loop over enumerate(bytes_), from byte number i (0-based) on
CoilData(bytes_, q, i) ==
    IF i >= Len(bytes_) THEN <<>>
    ELSE Bits(bytes_[i + 1], q, i) \o CoilData(bytes_, q, i + 1)

\* ReadCoils.create_from_response_pdu(resp_pdu, quantity)
ReadCoils_create_from_response_pdu(resp_pdu, q) ==
    IF ~QuantityInRange(q) THEN Raise("IllegalDataValueError")
    ELSE IF ~UnpackBytesOk(1, Slice(resp_pdu, 1, 2)) THEN Raise("struct.error")
    ELSE LET byte_count == resp_pdu[2]
             bytes_ == Slice(resp_pdu, 2, Len(resp_pdu))
         IN  IF ~UnpackBytesOk(byte_count, bytes_) THEN Raise("struct.error")
             ELSE ReturnInstance("ReadCoils", Some(byte_count), Some(q),
                                 CoilData(bytes_, q, 0))

\* the word order struct.pack('>BHH', ...) gives a 16-bit field
PackWordLittleEndian(v) == <<v % 256, v \div 256>>
PackField(v) == PackWord(v)

\* ReadCoils.request_pdu, on an instance with the given attributes
ReadCoils_request_pdu(address, q) ==
    IF address = None \/ q = None THEN Raise("Exception")
    ELSE IF address[1] < 0 \/ address[1] > 65535
              \/ q[1] < 0 \/ q[1] > 65535 THEN Raise("struct.error")
    ELSE ReturnBytes(<<READ_COILS>> \o PackField(address[1]) \o PackField(q[1]))

-----------------------------------------------------------------------------
(* class ReadHoldingRegisters, class ReadInputRegisters *)

\* ReadHoldingRegisters.create_from_response_pdu(pdu)
ReadHoldingRegisters_create_from_response_pdu(pdu) ==
    IF ~UnpackBytesOk(2, Slice(pdu, 0, 2)) THEN Raise("struct.error")
    ELSE LET byte_count == pdu[2]
             n == byte_count \div 2
             rest == Slice(pdu, 2, Len(pdu))
         IN  IF ~UnpackWordsOk(n, rest) THEN Raise("struct.error")
             ELSE ReturnInstance("ReadHoldingRegisters", Some(byte_count),
                                 None, UnpackWords(n, rest))

\* ReadInputRegisters.create_from_response_pdu(pdu): read_input_registers
\* is the empty tuple, and setting byte_count on it raises
ReadInputRegisters_create_from_response_pdu(pdu) ==
    IF ~UnpackBytesOk(2, Slice(pdu, 0, 2)) THEN Raise("struct.error")
    ELSE Raise("AttributeError")

-----------------------------------------------------------------------------
(* The registry and the dispatcher. *)

function_code_to_function_map ==
    [c \in {READ_COILS, READ_HOLDING_REGISTERS, READ_INPUT_REGISTERS} |->
        CASE c = READ_COILS -> "ReadCoils"
          [] c = READ_HOLDING_REGISTERS -> "ReadHoldingRegisters"
          [] c = READ_INPUT_REGISTERS -> "ReadInputRegisters"]

\* cls.create_from_response_pdu(resp_pdu, *args): the coil decoder takes
\* the quantity, the register decoders take the PDU alone
Delegate(cls, resp_pdu, args) ==
    CASE cls = "ReadCoils" ->
            IF Len(args) # 1 THEN Raise("TypeError")
            ELSE ReadCoils_create_from_response_pdu(resp_pdu, args[1])
      [] cls = "ReadHoldingRegisters" ->
            IF Len(args) # 0 THEN Raise("TypeError")
            ELSE ReadHoldingRegisters_create_from_response_pdu(resp_pdu)
      [] cls = "ReadInputRegisters" ->
            IF Len(args) # 0 THEN Raise("TypeError")
            ELSE ReadInputRegisters_create_from_response_pdu(resp_pdu)

\* create_function_from_response_pdu(resp_pdu, *args)
create_function_from_response_pdu(resp_pdu, args) ==
    IF ~UnpackBytesOk(1, Slice(resp_pdu, 1, 2)) THEN Raise("struct.error")
    ELSE LET function_code == resp_pdu[2]
         IN  IF function_code \notin DOMAIN function_code_to_function_map
             THEN IF function_code \in DOMAIN error_code_to_exception_map
                  THEN Raise(error_code_to_exception_map[function_code])
                  ELSE Raise("KeyError")
             ELSE Delegate(function_code_to_function_map[function_code],
                           resp_pdu, args)

-----------------------------------------------------------------------------
(* The inputs the operations are called with. *)

SeqsUpTo(S, n) == UNION {[1..k -> S] : k \in 0..n}

\* coil-status bytes: every pattern of the low four bits, and bytes with
\* high bits set
CoilByteValues == (0..15) \cup {20, 127, 128, 170, 255}

\* response PDUs handed to ReadCoils.create_from_response_pdu: truncated
\* ones, and a byte-count field in front of any number of data bytes
CoilPdus ==
    {<<>>, <<READ_COILS>>}
    \cup {<<READ_COILS, bc>> \o d : bc \in 0..(MaxDataBytes + 1),
                                    d \in SeqsUpTo(CoilByteValues, MaxDataBytes)}

CoilQuantityArgs == (0..MaxQuantityArg) \cup {MAX_COIL_QUANTITY, MAX_COIL_QUANTITY + 1}

RegisterByteValues == {0, 10, 20, 255}

\* response PDUs handed to the register decoders
RegisterPdus(code) ==
    {<<>>, <<code>>}
    \cup {<<code, bc>> \o d : bc \in 0..(MaxRegisterBytes + 1),
                              d \in SeqsUpTo(RegisterByteValues, MaxRegisterBytes)}

\* first bytes of the PDUs handed to the dispatcher: registered codes,
\* unregistered codes, and codes with the high bit set
DispatchFirstBytes == {1, 2, 3, 4, 9, 129, 131, 137}

\* second bytes: byte counts, and the exception codes 1..11 and beyond
DispatchSecondBytes == 1..12

DispatchPdus ==
    {<<>>} \cup {<<f>> : f \in DispatchFirstBytes}
    \cup {<<f, c>> \o d : f \in DispatchFirstBytes, c \in DispatchSecondBytes,
                          d \in SeqsUpTo({0, 3, 10, 255}, MaxDataBytes)}

\* the context passed on: nothing, or the quantity requested
DispatchArgs == {<<>>, <<3>>, <<8>>, <<16>>, <<MAX_COIL_QUANTITY + 1>>}

\* values assigned to ReadCoils.quantity
QuantityValues ==
    {-1, 0, 1, 2, 3, 8, 255, 256, MAX_COIL_QUANTITY - 1, MAX_COIL_QUANTITY,
     MAX_COIL_QUANTITY + 1, 65535, 65536}

\* values assigned to starting_address
AddressValues == {-1, 0, 1, 100, 255, 256, 4660, 65535, 65536}

\* values assigned to the quantity of a register read
RegisterQuantityValues == {0, 1, 125, 126}

-----------------------------------------------------------------------------
(* The state: one ReadCoils instance that requests are built from, one     *)
(* ReadHoldingRegisters instance, the last call made and what it gave.     *)

Called(fn, pdu, args) == [fn |-> fn, pdu |-> pdu, args |-> args]

\* a call made whose outcome is not there yet
Pending ==
    [raised |-> "", instance |-> "pending", byte_count |-> None,
     quantity |-> None, data |-> <<>>, pdu |-> <<>>]

\* the calls of the decoders and of the dispatcher, each a single-shot
\* transform of its arguments
IsDecodeCall(c) ==
    \/ \E p \in CoilPdus, q \in CoilQuantityArgs :
            c = Called("ReadCoils.create_from_response_pdu", p, <<q>>)
    \/ \E p \in RegisterPdus(READ_HOLDING_REGISTERS) :
            c = Called("ReadHoldingRegisters.create_from_response_pdu", p, <<>>)
    \/ \E p \in RegisterPdus(READ_INPUT_REGISTERS) :
            c = Called("ReadInputRegisters.create_from_response_pdu", p, <<>>)
    \/ \E p \in DispatchPdus, a \in DispatchArgs :
            c = Called("create_function_from_response_pdu", p, a)

\* fresh instances, nothing called yet
InitRequest ==
    /\ starting_address = None
    /\ quantity = None
    /\ register_quantity = None
    /\ call = Called("", <<>>, <<>>)
    /\ result = ReturnNone

\* a decoder or the dispatcher is called with any of the inputs
InitDecode ==
    /\ starting_address = None
    /\ quantity = None
    /\ register_quantity = None
    /\ IsDecodeCall(call)
    /\ result = Pending

\* read_coils.quantity = value
SetQuantity ==
    \E value \in QuantityValues :
        /\ call' = Called("ReadCoils.quantity", <<>>, <<value>>)
        /\ IF ~QuantityInRange(value)
           THEN /\ result' = Raise("IllegalDataValueError")
                /\ quantity' = quantity
           ELSE /\ result' = ReturnNone
                /\ quantity' = Some(value)
        /\ UNCHANGED <<starting_address, register_quantity>>

\* read_coils.starting_address = value: a plain attribute
SetStartingAddress ==
    \E value \in AddressValues :
        /\ call' = Called("ReadCoils.starting_address", <<>>, <<value>>)
        /\ result' = ReturnNone
        /\ starting_address' = Some(value)
        /\ UNCHANGED <<quantity, register_quantity>>

\* read_coils.request_pdu
RequestPdu ==
    /\ call' = Called("ReadCoils.request_pdu", <<>>, <<>>)
    /\ result' = ReadCoils_request_pdu(starting_address, quantity)
    /\ UNCHANGED <<starting_address, quantity, register_quantity>>

\* read_holding_registers.quantity = value: the class defines no quantity
\* property, the value lands in the instance as it is
SetRegisterQuantity ==
    \E value \in RegisterQuantityValues :
        /\ call' = Called("ReadHoldingRegisters.quantity", <<>>, <<value>>)
        /\ result' = ReturnNone
        /\ register_quantity' = Some(value)
        /\ UNCHANGED <<starting_address, quantity>>

\* read_holding_registers.request_pdu: the class defines none
RegisterRequestPdu ==
    /\ call' = Called("ReadHoldingRegisters.request_pdu", <<>>, <<>>)
    /\ result' = Raise("AttributeError")
    /\ UNCHANGED <<starting_address, quantity, register_quantity>>

\* ReadCoils.create_from_response_pdu(resp_pdu, quantity)
DecodeReadCoils ==
    /\ call.fn = "ReadCoils.create_from_response_pdu"
    /\ result = Pending
    /\ result' = ReadCoils_create_from_response_pdu(call.pdu, call.args[1])
    /\ UNCHANGED <<starting_address, quantity, register_quantity, call>>

\* ReadHoldingRegisters.create_from_response_pdu(pdu)
DecodeReadHoldingRegisters ==
    /\ call.fn = "ReadHoldingRegisters.create_from_response_pdu"
    /\ result = Pending
    /\ result' = ReadHoldingRegisters_create_from_response_pdu(call.pdu)
    /\ UNCHANGED <<starting_address, quantity, register_quantity, call>>

\* ReadInputRegisters.create_from_response_pdu(pdu)
DecodeReadInputRegisters ==
    /\ call.fn = "ReadInputRegisters.create_from_response_pdu"
    /\ result = Pending
    /\ result' = ReadInputRegisters_create_from_response_pdu(call.pdu)
    /\ UNCHANGED <<starting_address, quantity, register_quantity, call>>

\* create_function_from_response_pdu(resp_pdu, *args)
Dispatch ==
    /\ call.fn = "create_function_from_response_pdu"
    /\ result = Pending
    /\ result' = create_function_from_response_pdu(call.pdu, call.args)
    /\ UNCHANGED <<starting_address, quantity, register_quantity, call>>

\* building requests: the instances and their attributes
NextRequest ==
    \/ SetQuantity
    \/ SetStartingAddress
    \/ RequestPdu
    \/ SetRegisterQuantity
    \/ RegisterRequestPdu

\* decoding responses: static, every call on fresh objects
NextDecode ==
    \/ DecodeReadCoils
    \/ DecodeReadHoldingRegisters
    \/ DecodeReadInputRegisters
    \/ Dispatch

SpecRequest == InitRequest /\ [][NextRequest]_vars

SpecDecode == InitDecode /\ [][NextDecode]_vars

-----------------------------------------------------------------------------
(* What the properties below are stated with. *)

\* the call named fn has been made and its outcome is there
Done(fn) == call.fn = fn /\ result # Pending

Returned == result.raised = ""

\* ceil(q / 8)
ByteCountFor(q) == (q + 7) \div 8

\* x packed LSB-first: boolean k (from 0) is bit k mod 8 of byte k div 8,
\* the unused high bits of the last byte are zero
PackCoils(x) ==
    [b \in 1..ByteCountFor(Len(x)) |->
        LET Bit(j) == IF 8 * (b - 1) + j + 1 <= Len(x)
                      THEN x[8 * (b - 1) + j + 1] ELSE 0
        IN  Bit(0) + 2 * Bit(1) + 4 * Bit(2) + 8 * Bit(3) + 16 * Bit(4)
            + 32 * Bit(5) + 64 * Bit(6) + 128 * Bit(7)]

\* the q booleans a coil-status field of at least ceil(q/8) bytes holds
CoilsOf(bytes_, q) ==
    [k \in 1..q |-> (bytes_[((k - 1) \div 8) + 1] \div (2 ^ ((k - 1) % 8))) % 2]

\* the exception classes of the error mapping table
DeviceExceptions ==
    {error_code_to_exception_map[c] : c \in DOMAIN error_code_to_exception_map}

\* the response PDU is [READ_COILS][ceil(q/8)][PackCoils(x)] for some x of
\* q booleans
IsPackedCoilResponse(pdu, q) ==
    /\ Len(pdu) = 2 + ByteCountFor(q)
    /\ pdu[1] = READ_COILS
    /\ pdu[2] = ByteCountFor(q)
    /\ Slice(pdu, 2, Len(pdu)) = PackCoils(CoilsOf(Slice(pdu, 2, Len(pdu)), q))

-----------------------------------------------------------------------------
(* C1: every Read Coils response that ReadCoils.create_from_response_pdu   *)
(* decodes with a quantity q in 1..2000 yields exactly q booleans,         *)
(* whatever the data bytes are.                                            *)
C1_DecodedLengthIsQuantity ==
    (Done("ReadCoils.create_from_response_pdu") /\ Returned
        /\ QuantityInRange(call.args[1]))
    => Len(result.data) = call.args[1]

(* C2: a sequence x of q booleans (q in 1..2000) packed LSB-first into a   *)
(* Read Coils response with byte count ceil(q/8) decodes to exactly x:     *)
(* length q and the same value at every position.  Byte 0x03 gives         *)
(* 1,1,0 for q = 3 and 1,1 for q = 2.                                      *)
C2_PackThenDecodeRoundTrips ==
    /\ (Done("ReadCoils.create_from_response_pdu")
            /\ QuantityInRange(call.args[1])
            /\ IsPackedCoilResponse(call.pdu, call.args[1]))
       => /\ Returned
          /\ Len(result.data) = call.args[1]
          /\ result.data = CoilsOf(Slice(call.pdu, 2, Len(call.pdu)), call.args[1])
    /\ (Done("ReadCoils.create_from_response_pdu") /\ call.pdu = <<1, 1, 3>>)
       => /\ call.args[1] = 3 => result.data = <<1, 1, 0>>
          /\ call.args[1] = 2 => result.data = <<1, 1>>

\* a two-byte response of ten coils has been decoded to the coils packed
C2_Witness ==
    /\ Done("ReadCoils.create_from_response_pdu")
    /\ call.pdu = <<1, 2, 5, 1>>
    /\ call.args = <<10>>
    /\ result.data = <<1, 0, 1, 0, 0, 0, 0, 0, 1, 0>>

(* C3: the dispatcher selects the decoder from the FIRST byte: a response  *)
(* whose first byte is a registered function code is delegated to that     *)
(* code's decoder whatever its second byte is, and is never reported as a  *)
(* device exception.                                                       *)
C3_DispatchOnFirstByte ==
    (Done("create_function_from_response_pdu")
        /\ Len(call.pdu) >= 2
        /\ call.pdu[1] \in DOMAIN function_code_to_function_map)
    => /\ result = Delegate(function_code_to_function_map[call.pdu[1]],
                            call.pdu, call.args)
       /\ result.raised \notin DeviceExceptions

(* C4: an exception response [func|0x80][exception_code] makes the         *)
(* dispatcher fail with the class the error mapping table gives the        *)
(* exception code, and with an unknown-device-exception error (here: the   *)
(* failed table lookup) for a code outside the table; it is never          *)
(* delegated to a function decoder.                                        *)
C4_ExceptionResponseFailsWithMappedError ==
    (Done("create_function_from_response_pdu")
        /\ Len(call.pdu) = 2
        /\ call.pdu[1] >= 128)
    => IF call.pdu[2] \in DOMAIN error_code_to_exception_map
       THEN result.raised = error_code_to_exception_map[call.pdu[2]]
       ELSE result.raised = "KeyError"

(* C6: decoding a Read Coils response with quantity q succeeds only when   *)
(* the byte-count field equals the number of data bytes that follow it     *)
(* and that number is ceil(q/8).                                           *)
C6_DecodeChecksByteCount ==
    (Done("ReadCoils.create_from_response_pdu") /\ Returned)
    => /\ Len(call.pdu) >= 2
       /\ call.pdu[2] = Len(call.pdu) - 2
       /\ Len(call.pdu) - 2 = ByteCountFor(call.args[1])

(* C7: both register decoders (Read Holding Registers, Read Input          *)
(* Registers) return, for a response [func][byte_count = 2n][registers],   *)
(* the n 16-bit values in wire order, each big-endian (00 0a 00 14 gives   *)
(* 10, 20).                                                                *)
C7_RegistersDecodeBigEndian ==
    ((Done("ReadHoldingRegisters.create_from_response_pdu")
            \/ Done("ReadInputRegisters.create_from_response_pdu"))
        /\ Len(call.pdu) >= 2
        /\ call.pdu[2] = Len(call.pdu) - 2
        /\ call.pdu[2] % 2 = 0)
    => /\ Returned
       /\ Len(result.data) = call.pdu[2] \div 2
       /\ \A k \in 1..Len(result.data) :
            result.data[k] = 256 * call.pdu[2 * k + 1] + call.pdu[2 * k + 2]

(* C8: a non-exception response whose function code has no registered      *)
(* definition makes the dispatcher fail, and with an error that is none of *)
(* the device exceptions.                                                  *)
C8_UnregisteredCodeIsNotADeviceException ==
    (Done("create_function_from_response_pdu")
        /\ Len(call.pdu) >= 2
        /\ call.pdu[1] < 128
        /\ call.pdu[1] \notin DOMAIN function_code_to_function_map)
    => /\ ~Returned
       /\ result.raised \notin DeviceExceptions

(* C5: construction of a request with a quantity outside 1..2000 (coils)   *)
(* or outside 1..125 (registers) fails with the invalid-parameter error    *)
(* and produces no bytes: request_pdu returns bytes only for a quantity    *)
(* inside the range, and none while quantity or starting address is unset. *)
C5_OutOfRangeQuantityFails ==
    /\ (call.fn = "ReadCoils.quantity"
            /\ ~(1 <= call.args[1] /\ call.args[1] <= 2000))
       => result.raised = "IllegalDataValueError"
    /\ (call.fn = "ReadHoldingRegisters.quantity"
            /\ ~(1 <= call.args[1] /\ call.args[1] <= 125))
       => result.raised = "IllegalDataValueError"
    /\ (call.fn = "ReadCoils.request_pdu" /\ Returned)
       => /\ starting_address # None
          /\ quantity # None
          /\ 1 <= quantity[1] /\ quantity[1] <= 2000
    /\ (call.fn = "ReadHoldingRegisters.request_pdu" /\ Returned)
       => /\ register_quantity # None
          /\ 1 <= register_quantity[1] /\ register_quantity[1] <= 125

(* C9: for a starting address a in 0..65535 and a quantity q in 1..2000    *)
(* request_pdu returns exactly 5 bytes: the function code 1, a big-endian  *)
(* in bytes 1-2, q big-endian in bytes 3-4 (address 100, quantity 3 gives  *)
(* 01 00 64 00 03).                                                        *)
C9_RequestPduLayout ==
    (call.fn = "ReadCoils.request_pdu"
        /\ starting_address # None /\ quantity # None
        /\ 0 <= starting_address[1] /\ starting_address[1] <= 65535
        /\ 1 <= quantity[1] /\ quantity[1] <= 2000)
    => /\ Returned
       /\ Len(result.pdu) = 5
       /\ \A k \in 1..5 : result.pdu[k] \in 0..255
       /\ result.pdu[1] = 1
       /\ 256 * result.pdu[2] + result.pdu[3] = starting_address[1]
       /\ 256 * result.pdu[4] + result.pdu[5] = quantity[1]
       /\ (starting_address = <<100>> /\ quantity = <<3>>)
            => result.pdu = <<1, 0, 100, 0, 3>>

\* the request for 1999 coils from address 4660 has been built
C9_Witness ==
    /\ call.fn = "ReadCoils.request_pdu"
    /\ starting_address = <<4660>>
    /\ quantity = <<1999>>
    /\ result.pdu = <<1, 18, 52, 7, 207>>

(* C10: whatever is assigned to ReadCoils.quantity, the stored quantity is *)
(* unset or in 1..2000; an assignment outside 1..2000 raises and leaves    *)
(* the stored quantity and the starting address as they were, and no       *)
(* request PDU carries a quantity outside 1..2000.                         *)
C10_StoredQuantityIsValid ==
    /\ [](quantity = None \/ (1 <= quantity[1] /\ quantity[1] <= 2000))
    /\ [][(call'.fn = "ReadCoils.quantity"
                /\ ~(1 <= call'.args[1] /\ call'.args[1] <= 2000))
            => /\ result'.raised = "IllegalDataValueError"
               /\ quantity' = quantity
               /\ starting_address' = starting_address]_vars
    /\ []((call.fn = "ReadCoils.request_pdu" /\ Returned)
            => LET q == 256 * result.pdu[4] + result.pdu[5]
               IN  1 <= q /\ q <= 2000)

\* 2001 has been assigned to a quantity of 3, and 3 it still is
C10_Witness ==
    /\ call.fn = "ReadCoils.quantity"
    /\ call.args = <<2001>>
    /\ result.raised = "IllegalDataValueError"
    /\ quantity = <<3>>
    /\ starting_address = <<100>>

====
